---- MODULE Spec2Model ----
(***************************************************************************)
(* Function-webhook commands of parse-cli (functions_cmd.go).              *)
(*                                                                         *)
(* A Go string is a sequence of one-character strings, so that path.Join,  *)
(* url.Parse, %q quoting and sort.Strings are computed character by        *)
(* character.  One command runs per process: the state holds what the user *)
(* typed, what the server answered, and what the command did with them     *)
(* (requests handed to the API client, text written to e.Out and e.Err,    *)
(* the error returned).                                                    *)
(***************************************************************************)
EXTENDS Integers, Sequences, FiniteSets, TLC

VARIABLES
    pc,         \* "idle", or the command that has run
    All,        \* the All field of the command functionHooksRead ran on
    nameTok,    \* the token typed at the function-name prompt
    urlTok,     \* the token typed at the URL prompt
    answer,     \* the token typed at the (y/n) prompt
    reply,      \* what the API client returned to the command
    validated,  \* the strings passed to validateURL
    requests,   \* the calls of e.ParseAPIClient.Get, Post and Put
    out,        \* the writes to e.Out
    errOut,     \* the writes to e.Err
    ret         \* the error the command returned

vars == <<pc, All, nameTok, urlTok, answer, reply, validated, requests, out,
          errOut, ret>>

(***************************************************************************)
(* Bounds.                                                                 *)
(***************************************************************************)
\* longest token the user types at the function-name prompt
MaxLen == 2
\* largest number of entries in the server's "results" array
MaxResults == 2

StringsUpTo(n, alphabet) ==
    UNION {[1..k -> alphabet] : k \in 0..n}

\* characters typed at the function-name prompt (%s reads no white space)
InputAlphabet == {"a", ".", "/", "?", "%"}

\* tokens read by fmt.Fscanf(e.In, "%s\n", &f.FunctionName); <<>> is an
\* empty line or end of input
Tokens == StringsUpTo(MaxLen, InputAlphabet)

\* tokens read by fmt.Fscanf(e.In, "%s\n", &f.URL)
UrlTokens ==
    {<<>>, <<"a">>, <<"a", "/">>, <<"/", "a">>, <<"%">>, <<"?">>}

\* what the user types at the (y/n) prompt
Answers == {"y", "n", ""}

(***************************************************************************)
(* String literals of the source.                                          *)
(***************************************************************************)
\* const defaultFunctionsURL = "/1/hooks/functions"
defaultFunctionsURL ==
    <<"/", "1", "/", "h", "o", "o", "k", "s", "/",
      "f", "u", "n", "c", "t", "i", "o", "n", "s">>

\* "https://"
httpsPrefix == <<"h", "t", "t", "p", "s", ":", "/", "/">>

\* "Function name: "
lblFunctionName ==
    <<"F", "u", "n", "c", "t", "i", "o", "n", " ", "n", "a", "m", "e", ":", " ">>

\* ", URL: "
lblURL == <<",", " ", "U", "R", "L", ":", " ">>

\* the characters of rendered lines, in byte order
Ascii ==
    <<"\n", " ", "\"", ",", "/", ":", "F", "L", "R", "U", "Z", "\\",
      "a", "c", "e", "h", "i", "m", "n", "o", "p", "s", "t", "u">>

Ord(c) == CHOOSE i \in 1..Len(Ascii) : Ascii[i] = c

Nil == "nil"

(***************************************************************************)
(* type functionHook struct                                                *)
(***************************************************************************)
functionHook(name, url, warning) ==
    [FunctionName |-> name, URL |-> url, Warning |-> warning]

\* var f functionHook
ZeroHook == functionHook(<<>>, <<>>, <<>>)

\* strconv.Quote, the %q verb: double quotes around the text, a backslash
\* before every double quote and backslash
RECURSIVE QuoteBody(_)
QuoteBody(s) ==
    IF s = <<>> THEN <<>>
    ELSE (IF Head(s) \in {"\"", "\\"} THEN <<"\\", Head(s)>> ELSE <<Head(s)>>)
         \o QuoteBody(Tail(s))

Quote(s) == <<"\"">> \o QuoteBody(s) \o <<"\"">>

\* func (f functionHook) String() string
String(f) ==
    IF f.URL # <<>>
    THEN lblFunctionName \o Quote(f.FunctionName) \o lblURL \o Quote(f.URL)
    ELSE lblFunctionName \o Quote(f.FunctionName)

(***************************************************************************)
(* The server.                                                             *)
(***************************************************************************)
ServerNames == {<<>>, <<"a">>, <<"Z">>, <<"\"">>}

ServerURLs == {<<>>, httpsPrefix \o <<"a">>, httpsPrefix \o <<"Z">>}

ServerWarnings == {<<>>, <<"w">>}

\* a decoded single-hook response body (create, update, delete)
ServerHooks ==
    {functionHook(n, u, w) : n \in ServerNames, u \in ServerURLs,
                             w \in ServerWarnings}

\* a decoded entry of {results: [...]}: a function the server knows, with
\* a URL when it is a webhook
ListedHooks ==
    {functionHook(n, u, <<>>) :
        n \in ServerNames \ {<<>>}, u \in {<<>>, httpsPrefix \o <<"a">>}}

\* transport failure, non-2xx status, JSON decode failure
TransportErrors == {"transport failure", "status 500", "json decode"}

\* what Post and Put return: (err, res)
HookReplies ==
    {[err |-> Nil, res |-> h, Results |-> <<>>] : h \in ServerHooks}
    \cup {[err |-> e, res |-> ZeroHook, Results |-> <<>>] : e \in TransportErrors}

\* what Get returns: (err, res.Results)
ListReplies ==
    {[err |-> Nil, res |-> ZeroHook, Results |-> r] :
        r \in StringsUpTo(MaxResults, ListedHooks)}
    \cup {[err |-> e, res |-> ZeroHook, Results |-> <<>>] : e \in TransportErrors}

NoReply == [err |-> Nil, res |-> ZeroHook, Results |-> <<>>]

(***************************************************************************)
(* path.Join and url.Parse                                                 *)
(***************************************************************************)
\* strings.Split(s, sep) for a one-character sep: the pieces between
\* consecutive occurrences of sep
SplitOn(s, sep) ==
    LET cuts == {0, Len(s) + 1} \cup {i \in 1..Len(s) : s[i] = sep}
        Cut(k) == CHOOSE i \in cuts : Cardinality({j \in cuts : j < i}) = k
    IN [k \in 1..(Cardinality(cuts) - 1) |-> SubSeq(s, Cut(k - 1) + 1, Cut(k) - 1)]

\* strings.Join(a, sep)
RECURSIVE strings_Join(_, _)
strings_Join(a, sep) ==
    IF a = <<>> THEN <<>>
    ELSE IF Len(a) = 1 THEN a[1]
    ELSE a[1] \o sep \o strings_Join(Tail(a), sep)

\* the element loop of path.Clean: empty and "." elements are dropped, ".."
\* removes the element before it, and is itself dropped at the root
RECURSIVE CleanElems(_, _, _)
CleanElems(elems, kept, rooted) ==
    IF elems = <<>> THEN kept
    ELSE LET e == Head(elems)
         IN IF e = <<>> \/ e = <<".">>
            THEN CleanElems(Tail(elems), kept, rooted)
            ELSE IF e = <<".", ".">>
            THEN IF kept # <<>> /\ kept[Len(kept)] # <<".", ".">>
                 THEN CleanElems(Tail(elems), SubSeq(kept, 1, Len(kept) - 1), rooted)
                 ELSE IF rooted
                 THEN CleanElems(Tail(elems), kept, rooted)
                 ELSE CleanElems(Tail(elems), Append(kept, e), rooted)
            ELSE CleanElems(Tail(elems), Append(kept, e), rooted)

\* path.Clean
path_Clean(p) ==
    IF p = <<>> THEN <<".">>
    ELSE LET rooted == Head(p) = "/"
             kept == CleanElems(SplitOn(p, "/"), <<>>, rooted)
             body == strings_Join(kept, <<"/">>)
         IN IF rooted THEN <<"/">> \o body
            ELSE IF body = <<>> THEN <<".">> ELSE body

\* path.Join(a, b)
path_Join(a, b) ==
    IF a = <<>> /\ b = <<>> THEN <<>>
    ELSE IF a = <<>> THEN path_Clean(b)
    ELSE IF b = <<>> THEN path_Clean(a)
    ELSE path_Clean(a \o <<"/">> \o b)

HexDigits ==
    {"0", "1", "2", "3", "4", "5", "6", "7", "8", "9",
     "a", "b", "c", "d", "e", "f", "A", "B", "C", "D", "E", "F"}

ErrEscape == "invalid URL escape"

\* url.unescape(s, encodePath): [ok, s]; "%XY" is one byte, written "0xXY"
RECURSIVE unescape(_)
unescape(s) ==
    IF s = <<>> THEN [ok |-> TRUE, s |-> <<>>]
    ELSE IF Head(s) = "%"
    THEN IF Len(s) >= 3 /\ s[2] \in HexDigits /\ s[3] \in HexDigits
         THEN LET r == unescape(SubSeq(s, 4, Len(s)))
              IN [ok |-> r.ok, s |-> <<"0x" \o s[2] \o s[3]>> \o r.s]
         ELSE [ok |-> FALSE, s |-> <<>>]
    ELSE LET r == unescape(Tail(s))
         IN [ok |-> r.ok, s |-> <<Head(s)>> \o r.s]

\* index of the first sep in s, 0 when there is none
IndexOf(s, sep) ==
    IF \E i \in 1..Len(s) : s[i] = sep
    THEN CHOOSE i \in 1..Len(s) : s[i] = sep /\ \A j \in 1..(i - 1) : s[j] # sep
    ELSE 0

\* url.Parse of a rooted path: the text after the first "?" is the query,
\* the text before it is unescaped into Path
url_Parse(raw) ==
    LET q == IndexOf(raw, "?")
        rest == IF q = 0 THEN raw ELSE SubSeq(raw, 1, q - 1)
        query == IF q = 0 THEN <<>> ELSE SubSeq(raw, q + 1, Len(raw))
        p == unescape(rest)
    IN IF p.ok
       THEN [err |-> Nil, Path |-> p.s, RawQuery |-> query]
       ELSE [err |-> ErrEscape, Path |-> <<>>, RawQuery |-> <<>>]

ErrInvalidURL == "invalid url"

\* validateURL: the URL is well-formed, with the https scheme and a host
validateURL(u) ==
    LET n == Len(httpsPrefix)
        rest == SubSeq(u, n + 1, Len(u))
    IN IF Len(u) < n \/ SubSeq(u, 1, n) # httpsPrefix THEN ErrInvalidURL
       ELSE IF rest = <<>> \/ Head(rest) \in {"/", "?"} THEN ErrInvalidURL
       ELSE IF ~unescape(rest).ok THEN ErrEscape
       ELSE Nil

\* getConfirmation: shows the message on e.Out and reads the answer
getConfirmation(message, ans) ==
    [out |-> <<message>>, yes |-> ans = "y"]

(***************************************************************************)
(* sort.Strings                                                            *)
(***************************************************************************)
\* a < b on Go strings: the bytes at the first difference decide, and a
\* proper prefix comes first
Less(a, b) ==
    LET m == IF Len(a) < Len(b) THEN Len(a) ELSE Len(b)
        d == CHOOSE i \in 1..m :
                a[i] # b[i] /\ SubSeq(a, 1, i - 1) = SubSeq(b, 1, i - 1)
    IN IF \A i \in 1..m : a[i] = b[i] THEN Len(a) < Len(b)
       ELSE Ord(a[d]) < Ord(b[d])

\* s, sorted, with x put in its place
RECURSIVE Insert(_, _)
Insert(x, s) ==
    IF s = <<>> THEN <<x>>
    ELSE IF Less(Head(s), x) THEN <<Head(s)>> \o Insert(x, Tail(s))
    ELSE <<x>> \o s

\* sort.Strings left out: the results in the order the server sent them
sort_StringsUnsorted(a) ==
    a

\* sort.Strings(a)
RECURSIVE sort_Strings(_)
sort_Strings(a) ==
    IF a = <<>> THEN <<>> ELSE Insert(Head(a), sort_Strings(Tail(a)))

(***************************************************************************)
(* The format strings of the messages.                                     *)
(***************************************************************************)
fmtPromptName ==
    "Please enter the function name: "

fmtPromptURL ==
    "URL: https://"

fmtWarning ==
    "WARNING: %s\n"

fmtCreated ==
    "Successfully created a webhook function %q pointing to %q\n"

fmtListAll ==
    "The following cloudcode or webhook functions are associated with this app:\n"

fmtListOne ==
    "You have one function named: %q\n"

fmtListMany ==
    "The following functions named: %q are associated with your app:\n"

fmtBody ==
    "%s\n"

fmtUpdated ==
    "Successfully update the webhook function %q to point to %q\n"

fmtConfirm ==
    "Are you sure you want to delete webhook function: %q (y/n): "

fmtDeleted ==
    "Successfully deleted webhook function %q\n"

fmtCloudCode ==
    "Function %q defined in cloud code will be used henceforth\n"

(***************************************************************************)
(* What a command does: the strings it passed to validateURL, the requests *)
(* it handed to e.ParseAPIClient, the writes to e.Out and e.Err, and the   *)
(* error it returned.                                                      *)
(***************************************************************************)
Outcome(v, reqs, o, e, r) ==
    [validated |-> v, requests |-> reqs, out |-> o, errOut |-> e, ret |-> r]

\* fmt.Fprintf(w, format, args...)
Printed(format, args) == [format |-> format, args |-> args]

\* a call of e.ParseAPIClient.Get, Post or Put
Request(method, u, body) ==
    [method |-> method, Path |-> u.Path, RawQuery |-> u.RawQuery, body |-> body]

\* Get sends no body
NoBody == <<>>

\* map[string]interface{}{"__op": "Delete"}
DeleteOp == "__op" :> "Delete"

ErrEmptyName == "Function name cannot be empty"

\* readFunctionName without the check of an empty name
readFunctionNameUnchecked(tok) ==
    [out |-> <<Printed(fmtPromptName, <<>>)>>,
     validated |-> <<>>,
     f |-> [ZeroHook EXCEPT !.FunctionName = tok],
     err |-> Nil]

\* func readFunctionName(e *env) (*functionHook, error)
readFunctionName(tok) ==
    [out |-> <<Printed(fmtPromptName, <<>>)>>,
     validated |-> <<>>,
     f |-> IF tok = <<>> THEN ZeroHook ELSE [ZeroHook EXCEPT !.FunctionName = tok],
     err |-> IF tok = <<>> THEN ErrEmptyName ELSE Nil]

\* readFunctionParams that drops the error of validateURL
readFunctionParamsUnvalidated(tok, utok) ==
    LET r == readFunctionName(tok)
        u == httpsPrefix \o utok
    IN IF r.err # Nil THEN r
       ELSE [out |-> r.out \o <<Printed(fmtPromptURL, <<>>)>>,
             validated |-> <<u>>,
             f |-> [r.f EXCEPT !.URL = u],
             err |-> Nil]

\* func readFunctionParams(e *env) (*functionHook, error)
readFunctionParams(tok, utok) ==
    LET r == readFunctionName(tok)
        u == httpsPrefix \o utok
        err == validateURL(u)
    IN IF r.err # Nil THEN r
       ELSE [out |-> r.out \o <<Printed(fmtPromptURL, <<>>)>>,
             validated |-> <<u>>,
             f |-> IF err # Nil THEN ZeroHook ELSE [r.f EXCEPT !.URL = u],
             err |-> err]

\* if res.Warning != "" { fmt.Fprintf(e.Err, "WARNING: %s\n", res.Warning) }
WarningOf(res) ==
    IF res.Warning # <<>>
    THEN <<Printed(fmtWarning, <<res.Warning>>)>>
    ELSE <<>>

\* functionHooksCreate that confirms with the name and URL it submitted
functionHooksCreateEchoesParams(tok, utok, rep) ==
    LET params == readFunctionParams(tok, utok)
        functionsURL == url_Parse(defaultFunctionsURL)
        req == Request("POST", functionsURL, params.f)
    IN IF params.err # Nil
       THEN Outcome(params.validated, <<>>, params.out, <<>>, params.err)
       ELSE IF rep.err # Nil
       THEN Outcome(params.validated, <<req>>, params.out, <<>>, rep.err)
       ELSE Outcome(params.validated, <<req>>,
                params.out \o
                <<Printed(fmtCreated,
                          <<Quote(params.f.FunctionName), Quote(params.f.URL)>>)>>,
                WarningOf(rep.res), Nil)

\* functionHooksCreate that posts the URL alone, as functionHooksUpdate does
functionHooksCreateSendsURLOnly(tok, utok, rep) ==
    LET params == readFunctionParams(tok, utok)
        functionsURL == url_Parse(defaultFunctionsURL)
        req == Request("POST", functionsURL, [ZeroHook EXCEPT !.URL = params.f.URL])
    IN IF params.err # Nil
       THEN Outcome(params.validated, <<>>, params.out, <<>>, params.err)
       ELSE IF rep.err # Nil
       THEN Outcome(params.validated, <<req>>, params.out, <<>>, rep.err)
       ELSE Outcome(params.validated, <<req>>,
                params.out \o
                <<Printed(fmtCreated,
                          <<Quote(rep.res.FunctionName), Quote(rep.res.URL)>>)>>,
                WarningOf(rep.res), Nil)

\* func (h *functionHooksCmd) functionHooksCreate(e *env, ctx *context) error
functionHooksCreate(tok, utok, rep) ==
    LET params == readFunctionParams(tok, utok)
        functionsURL == url_Parse(defaultFunctionsURL)
        req == Request("POST", functionsURL, params.f)
    IN IF params.err # Nil
       THEN Outcome(params.validated, <<>>, params.out, <<>>, params.err)
       ELSE IF functionsURL.err # Nil
       THEN Outcome(params.validated, <<>>, params.out, <<>>, functionsURL.err)
       ELSE IF rep.err # Nil
       THEN Outcome(params.validated, <<req>>, params.out, <<>>, rep.err)
       ELSE Outcome(params.validated, <<req>>,
                params.out \o
                <<Printed(fmtCreated,
                          <<Quote(rep.res.FunctionName), Quote(rep.res.URL)>>)>>,
                WarningOf(rep.res), Nil)

\* output = append(output, function.String()) for each result
RECURSIVE Rendered(_)
Rendered(results) ==
    IF results = <<>> THEN <<>>
    ELSE <<String(Head(results))>> \o Rendered(Tail(results))

\* the header chosen by the number of results whatever All is
ReadHeaderCounted(hAll, name, output) ==
    IF Len(output) = 1
    THEN Printed(fmtListOne, <<Quote(name)>>)
    ELSE IF hAll
    THEN Printed(fmtListAll, <<>>)
    ELSE Printed(fmtListMany, <<Quote(name)>>)

\* the header of functionHooksRead
ReadHeader(hAll, name, output) ==
    IF hAll
    THEN Printed(fmtListAll, <<>>)
    ELSE IF Len(output) = 1
    THEN Printed(fmtListOne, <<Quote(name)>>)
    ELSE Printed(fmtListMany,
                 <<Quote(name)>>)

\* func (h *functionHooksCmd) functionHooksRead(e *env, ctx *context) error
functionHooksRead(hAll, tok, rep) ==
    LET funct == readFunctionName(tok)
        prompts == IF hAll THEN <<>> ELSE funct.out
        u == IF hAll THEN defaultFunctionsURL
             ELSE path_Join(defaultFunctionsURL, funct.f.FunctionName)
        functionsURL == url_Parse(u)
        req == Request("GET", functionsURL, NoBody)
        output == sort_Strings(Rendered(rep.Results))
    IN IF ~hAll /\ funct.err # Nil
       THEN Outcome(<<>>, <<>>, prompts, <<>>, funct.err)
       ELSE IF functionsURL.err # Nil
       THEN Outcome(<<>>, <<>>, prompts, <<>>, functionsURL.err)
       ELSE IF rep.err # Nil
       THEN Outcome(<<>>, <<req>>, prompts, <<>>, rep.err)
       ELSE Outcome(<<>>, <<req>>,
                prompts \o
                <<ReadHeader(hAll, funct.f.FunctionName, output),
                  Printed(fmtBody, <<strings_Join(output, <<"\n">>)>>)>>,
                <<>>, Nil)

\* functionHooksUpdate that drops the error of Put and confirms
functionHooksUpdateSwallowsError(tok, utok, rep) ==
    LET params == readFunctionParams(tok, utok)
        functionsURL == url_Parse(path_Join(defaultFunctionsURL, params.f.FunctionName))
        req == Request("PUT", functionsURL, [ZeroHook EXCEPT !.URL = params.f.URL])
    IN IF params.err # Nil
       THEN Outcome(params.validated, <<>>, params.out, <<>>, params.err)
       ELSE IF functionsURL.err # Nil
       THEN Outcome(params.validated, <<>>, params.out, <<>>, functionsURL.err)
       ELSE Outcome(params.validated, <<req>>,
                params.out \o
                <<Printed(fmtUpdated,
                          <<Quote(rep.res.FunctionName), Quote(rep.res.URL)>>)>>,
                WarningOf(rep.res), Nil)

\* func (h *functionHooksCmd) functionHooksUpdate(e *env, ctx *context) error
functionHooksUpdate(tok, utok, rep) ==
    LET params == readFunctionParams(tok, utok)
        functionsURL == url_Parse(path_Join(defaultFunctionsURL, params.f.FunctionName))
        req == Request("PUT", functionsURL, [ZeroHook EXCEPT !.URL = params.f.URL])
    IN IF params.err # Nil
       THEN Outcome(params.validated, <<>>, params.out, <<>>, params.err)
       ELSE IF functionsURL.err # Nil
       THEN Outcome(params.validated, <<>>, params.out, <<>>, functionsURL.err)
       ELSE IF rep.err # Nil
       THEN Outcome(params.validated, <<req>>, params.out, <<>>, rep.err)
       ELSE Outcome(params.validated, <<req>>,
                params.out \o
                <<Printed(fmtUpdated,
                          <<Quote(rep.res.FunctionName), Quote(rep.res.URL)>>)>>,
                WarningOf(rep.res), Nil)

\* the prints of functionHooksDelete with the notice decided by res.URL
DeletePrintsByURL(name, res) ==
    <<Printed(fmtDeleted, <<Quote(name)>>)>>
    \o (IF res.URL # <<>>
        THEN <<Printed(fmtCloudCode, <<Quote(res.FunctionName)>>)>>
        ELSE <<>>)

\* what functionHooksDelete prints after a successful Put
DeletePrints(name, res) ==
    <<Printed(fmtDeleted, <<Quote(name)>>)>>
    \o (IF res.FunctionName # <<>>
        THEN <<Printed(fmtCloudCode,
                       <<Quote(res.FunctionName)>>)>>
        ELSE <<>>)

\* functionHooksDelete that sends the Put before it looks at the answer
functionHooksDeleteUnconfirmed(tok, ans, rep) ==
    LET params == readFunctionName(tok)
        functionsURL == url_Parse(path_Join(defaultFunctionsURL, params.f.FunctionName))
        confirmMessage == Printed(fmtConfirm, <<Quote(params.f.FunctionName)>>)
        confirm == getConfirmation(confirmMessage, ans)
        req == Request("PUT", functionsURL, DeleteOp)
    IN IF params.err # Nil
       THEN Outcome(<<>>, <<>>, params.out, <<>>, params.err)
       ELSE IF functionsURL.err # Nil
       THEN Outcome(<<>>, <<>>, params.out, <<>>, functionsURL.err)
       ELSE IF rep.err # Nil
       THEN Outcome(<<>>, <<req>>, params.out \o confirm.out, <<>>, rep.err)
       ELSE IF ~confirm.yes
       THEN Outcome(<<>>, <<req>>, params.out \o confirm.out, <<>>, Nil)
       ELSE Outcome(<<>>, <<req>>,
                params.out \o confirm.out
                \o DeletePrints(params.f.FunctionName, rep.res),
                <<>>, Nil)

\* func (h *functionHooksCmd) functionHooksDelete(e *env, ctx *context) error
functionHooksDelete(tok, ans, rep) ==
    LET params == readFunctionName(tok)
        functionsURL == url_Parse(path_Join(defaultFunctionsURL, params.f.FunctionName))
        confirmMessage ==
            Printed(fmtConfirm,
                    <<Quote(params.f.FunctionName)>>)
        confirm == getConfirmation(confirmMessage, ans)
        req == Request("PUT", functionsURL, DeleteOp)
    IN IF params.err # Nil
       THEN Outcome(<<>>, <<>>, params.out, <<>>, params.err)
       ELSE IF functionsURL.err # Nil
       THEN Outcome(<<>>, <<>>, params.out, <<>>, functionsURL.err)
       ELSE IF ~confirm.yes
       THEN Outcome(<<>>, <<>>, params.out \o confirm.out, <<>>, Nil)
       ELSE IF rep.err # Nil
       THEN Outcome(<<>>, <<req>>, params.out \o confirm.out, <<>>, rep.err)
       ELSE Outcome(<<>>, <<req>>,
                params.out \o confirm.out
                \o DeletePrints(params.f.FunctionName, rep.res),
                <<>>, Nil)

\* func (h *functionHooksCmd) functionHooks(e *env, c *context) error
functionHooks(hAll, tok, rep) ==
    functionHooksRead(TRUE, tok, rep)

(***************************************************************************)
(* The process: one command per run.                                       *)
(***************************************************************************)
Init ==
    /\ pc = "idle"
    /\ All = FALSE
    /\ nameTok = <<>>
    /\ urlTok = <<>>
    /\ answer = ""
    /\ reply = NoReply
    /\ validated = <<>>
    /\ requests = <<>>
    /\ out = <<>>
    /\ errOut = <<>>
    /\ ret = Nil

\* the command returns: its effects, and the reply the API client gave it
Returns(cmd, r, rep) ==
    /\ pc' = cmd
    /\ reply' = IF r.requests = <<>> THEN NoReply ELSE rep
    /\ validated' = r.validated
    /\ requests' = r.requests
    /\ out' = r.out
    /\ errOut' = r.errOut
    /\ ret' = r.ret

\* parse functions create
Create ==
    /\ pc = "idle"
    /\ \E tok \in Tokens, utok \in UrlTokens, rep \in HookReplies :
          /\ nameTok' = tok
          /\ urlTok' = utok
          /\ Returns("create", functionHooksCreate(tok, utok, rep), rep)
    /\ UNCHANGED <<All, answer>>

\* functionHooksRead called on a functionHooksCmd whose All field the caller
\* has set or left unset; the name is read only when it is unset
Read ==
    /\ pc = "idle"
    /\ \E hAll \in BOOLEAN, tok \in Tokens, rep \in ListReplies :
          /\ All' = hAll
          /\ nameTok' = IF hAll THEN nameTok ELSE tok
          /\ Returns("read", functionHooksRead(hAll, tok, rep), rep)
    /\ UNCHANGED <<urlTok, answer>>

\* parse functions: functionHooks runs functionHooksRead on a copy of the
\* command with All set
List ==
    /\ pc = "idle"
    /\ \E rep \in ListReplies :
          Returns("list", functionHooks(All, nameTok, rep), rep)
    /\ All' = TRUE
    /\ UNCHANGED <<nameTok, urlTok, answer>>

\* parse functions edit
Edit ==
    /\ pc = "idle"
    /\ \E tok \in Tokens, utok \in UrlTokens, rep \in HookReplies :
          /\ nameTok' = tok
          /\ urlTok' = utok
          /\ Returns("update", functionHooksUpdate(tok, utok, rep), rep)
    /\ UNCHANGED <<All, answer>>

\* parse functions delete
Delete ==
    /\ pc = "idle"
    /\ \E tok \in Tokens, ans \in Answers, rep \in HookReplies :
          /\ nameTok' = tok
          /\ answer' = ans
          /\ Returns("delete", functionHooksDelete(tok, ans, rep), rep)
    /\ UNCHANGED <<All, urlTok>>

Next == Create \/ Read \/ List \/ Edit \/ Delete

Spec == Init /\ [][Next]_vars

(***************************************************************************)
(* Properties.                                                             *)
(***************************************************************************)
\* the command prompted for a function name
Prompted ==
    pc \in {"create", "update", "delete"} \/ (pc = "read" /\ ~All)

\* the positions of the writes to e.Out made with one of the given formats
PositionsIn(formats) ==
    {i \in 1..Len(out) : out[i].format \in formats}

\* the positions of the writes to e.Out made with the given format
Positions(format) ==
    PositionsIn({format})

\* formats of the success confirmations, the list headers and the list body
ResultFormats ==
    {fmtCreated, fmtUpdated, fmtDeleted, fmtCloudCode,
     fmtListAll, fmtListOne, fmtListMany, fmtBody}

\* the command sent a request and the API client returned no error
Succeeded ==
    requests # <<>> /\ reply.err = Nil

\* C1: in create, read with All unset, update and delete, an empty token at
\* the function-name prompt makes the command return the validation error
\* with no request handed to the API client.
C1_EmptyNameRejected ==
    (Prompted /\ nameTok = <<>>) =>
        (ret = ErrEmptyName /\ requests = <<>>)

C1_Witness ==
    pc = "read" /\ ~All /\ nameTok = <<>> /\ ret = ErrEmptyName

\* the yes/no prompt of delete was shown
Asked ==
    Positions(fmtConfirm) # {}

\* C2: in delete, for a non-empty name, an answer at the yes/no prompt that
\* does not confirm leaves the request log empty, prints neither the
\* deletion confirmation nor the cloud-code notice, and returns nil.
C2_DeclinedDeleteIsNoOp ==
    (pc = "delete" /\ nameTok # <<>> /\ Asked
        /\ ~getConfirmation(Printed(fmtConfirm, <<Quote(nameTok)>>), answer).yes) =>
            /\ requests = <<>>
            /\ Positions(fmtDeleted) = {}
            /\ Positions(fmtCloudCode) = {}
            /\ ret = Nil

C2_Witness ==
    pc = "delete" /\ nameTok = <<"a">> /\ Asked /\ answer = "n" /\ ret = Nil

\* C3: in delete, confirmed and with a successful Put, the deletion
\* confirmation is printed; the cloud-code notice is printed exactly when the
\* response's FunctionName is non-empty, names that FunctionName, and comes
\* after the deletion confirmation; an empty response gives the deletion
\* confirmation alone.
C3_DeleteNotice ==
    (pc = "delete" /\ Succeeded) =>
        /\ Cardinality(Positions(fmtDeleted)) = 1
        /\ (Positions(fmtCloudCode) # {}) <=> (reply.res.FunctionName # <<>>)
        /\ \A j \in Positions(fmtCloudCode) :
              /\ out[j].args = <<Quote(reply.res.FunctionName)>>
              /\ \A i \in Positions(fmtDeleted) : i < j
        /\ Cardinality(Positions(fmtCloudCode)) <= 1
        /\ (reply.res = ZeroHook) =>
              (PositionsIn(ResultFormats \ {fmtDeleted}) = {}
               /\ \A i \in 1..Len(out) :
                     out[i].format \in {fmtPromptName, fmtConfirm, fmtDeleted})

C3_Witness ==
    /\ pc = "delete"
    /\ Succeeded
    /\ reply.res.FunctionName = <<"Z">>
    /\ reply.res.URL = <<>>
    /\ nameTok = <<"a">>
    /\ Positions(fmtCloudCode) # {}

\* C4: after a create the server answered, the confirmation names the
\* FunctionName and URL of the response, also when they differ from what
\* the user submitted.
C4_CreateConfirmsResponse ==
    (pc = "create" /\ Succeeded) =>
        /\ Cardinality(Positions(fmtCreated)) = 1
        /\ \A i \in Positions(fmtCreated) :
              out[i].args = <<Quote(reply.res.FunctionName), Quote(reply.res.URL)>>

C4_Witness ==
    /\ pc = "create"
    /\ Succeeded
    /\ reply.res.FunctionName # nameTok
    /\ reply.res.URL # httpsPrefix \o urlTok
    /\ Positions(fmtCreated) # {}

\* the orders in which a server may send the same results
Reorderings(results) ==
    LET n == Len(results)
        perms == {f \in [1..n -> 1..n] : \A i, j \in 1..n : f[i] = f[j] => i = j}
    IN {[i \in 1..n |-> results[f[i]]] : f \in perms}

\* the lines of the list body that was printed
BodyLines ==
    LET at == CHOOSE k \in Positions(fmtBody) : TRUE
    IN SplitOn(out[at].args[1], "\n")

\* C5: what functionHooksRead prints does not depend on the order of the
\* server's results, and the body lines are in non-decreasing byte order.
C5_ListOrderIndependent ==
    (pc \in {"read", "list"} /\ Succeeded) =>
        /\ \A r \in Reorderings(reply.Results) :
              functionHooksRead(All, nameTok, [reply EXCEPT !.Results = r]).out = out
        /\ Cardinality(Positions(fmtBody)) = 1
        /\ \A i \in 1..(Len(BodyLines) - 1) : ~Less(BodyLines[i + 1], BodyLines[i])

C5_Witness ==
    /\ pc = "read"
    /\ Succeeded
    /\ Len(reply.Results) = 2
    /\ Less(String(reply.Results[2]), String(reply.Results[1]))
    /\ BodyLines = <<String(reply.Results[2]), String(reply.Results[1])>>

\* the header printed by a successful read: the write before the body
Header ==
    out[Len(out) - 1]

\* C6: the header of a successful read is decided by All and the number of
\* results: with All unset, one result gives the singular header naming the
\* requested function, two or more the plural header, none a header and an
\* empty body; with All set the collective header for every number of
\* results.
C6_ReadHeader ==
    (pc \in {"read", "list"} /\ Succeeded) =>
        /\ out[Len(out)].format = fmtBody
        /\ All => Header = Printed(fmtListAll, <<>>)
        /\ (~All /\ Len(reply.Results) = 1) =>
              Header = Printed(fmtListOne, <<Quote(nameTok)>>)
        /\ (~All /\ Len(reply.Results) >= 2) =>
              Header = Printed(fmtListMany, <<Quote(nameTok)>>)
        /\ (~All /\ Len(reply.Results) = 0) =>
              /\ Header \in {Printed(fmtListOne, <<Quote(nameTok)>>),
                             Printed(fmtListMany, <<Quote(nameTok)>>)}
              /\ out[Len(out)].args = << <<>> >>

C6_Witness ==
    /\ pc = "list"
    /\ Succeeded
    /\ Len(reply.Results) = 1
    /\ Header = Printed(fmtListAll, <<>>)

\* C7: in create and update the string validated, and the URL sent, is
\* "https://" followed by the token typed at the URL prompt; when it fails
\* validation the command returns the validation error with no request.
C7_URLPrefixedAndValidated ==
    (pc \in {"create", "update"} /\ nameTok # <<>>) =>
        /\ validated = <<httpsPrefix \o urlTok>>
        /\ \A i \in 1..Len(requests) : requests[i].body.URL = httpsPrefix \o urlTok
        /\ validateURL(httpsPrefix \o urlTok) # Nil =>
              (ret = validateURL(httpsPrefix \o urlTok) /\ requests = <<>>)

C7_Witness ==
    /\ pc = "update"
    /\ nameTok # <<>>
    /\ validateURL(httpsPrefix \o urlTok) # Nil
    /\ ret = validateURL(httpsPrefix \o urlTok)

\* C8, as stated: every body of a create Post or an update Put carries a
\* non-empty FunctionName.
C8_BodiesCarryName ==
    pc \in {"create", "update"} =>
        \A i \in 1..Len(requests) : requests[i].body.FunctionName # <<>>

\* C8, amended: every body of a create Post carries a non-empty
\* FunctionName; the body of an update Put carries the URL alone, its
\* FunctionName empty.
C8_CreateBodyCarriesName ==
    /\ pc = "create" =>
          \A i \in 1..Len(requests) :
              /\ requests[i].method = "POST"
              /\ requests[i].body.FunctionName # <<>>
              /\ requests[i].body.FunctionName = nameTok
    /\ pc = "update" =>
          \A i \in 1..Len(requests) :
              /\ requests[i].method = "PUT"
              /\ requests[i].body = [ZeroHook EXCEPT !.URL = httpsPrefix \o urlTok]

C8_Witness ==
    /\ pc = "update"
    /\ requests # <<>>
    /\ requests[1].body.FunctionName = <<>>
    /\ nameTok # <<>>

\* C9: a command sends at most one request, and when the request fails the
\* command returns that error and prints no confirmation, header or body.
C9_SingleAttempt ==
    /\ Len(requests) <= 1
    /\ (requests # <<>> /\ reply.err # Nil) =>
          /\ ret = reply.err
          /\ PositionsIn(ResultFormats) = {}
          /\ errOut = <<>>

C9_Witness ==
    /\ pc = "update"
    /\ requests # <<>>
    /\ reply.err = "status 500"
    /\ ret = "status 500"

\* the path of the sub-resource called name
SubResource(name) ==
    defaultFunctionsURL \o <<"/">> \o name

\* C10: for a non-empty name, read-one, update and delete send their
\* request to the collection path followed by "/" and that name, a
\* sub-resource strictly below the collection path.
C10_TargetsSubResource ==
    (Prompted /\ pc # "create" /\ nameTok # <<>>) =>
        \A i \in 1..Len(requests) :
            /\ requests[i].Path = SubResource(nameTok)
            /\ requests[i].RawQuery = <<>>

====
